---- MODULE Spec2Model ----
(***************************************************************************)
(* The schedule fetcher of airways.gg (alpha_testing/reper.py):            *)
(* fetch_flights drives one browser session, its response observer         *)
(* on_response writes the capture slot captured_data, and main saves the   *)
(* returned payload to flights.xml.                                        *)
(*                                                                         *)
(* Every await of the main flow is one action (the code between two awaits *)
(* runs without interleaving on the asyncio loop); every on_response task  *)
(* is one action for its start (up to `await response.text()`) and one for *)
(* its completion.  The target site, the page's network traffic and the    *)
(* body reads are the environment.                                         *)
(***************************************************************************)
EXTENDS Integers, Sequences, FiniteSets, Bags, TLC

\* ------------------------------------------------------------- bounds
MaxCalls == 2        \* fetch_flights calls made in sequence by a test caller
MaxResponses == 2    \* matching responses delivered to the observers in one run

Calls == 1..MaxCalls

\* ------------------------------------------------------------- values
\* Python's None, a str (a sequence of text pieces), and "nothing returned".
None == [tag |-> "None"]
Str(s) == [tag |-> "str", val |-> s]
NoResult == [tag |-> "noresult"]

\* Truth value of an Optional[str]: None and '' are falsy.
Truthy(v) == v.tag = "str" /\ Len(v.val) > 0

\* `needle in haystack` on strings.
Contains(needle, haystack) ==
    \E i \in 1..(Len(haystack) - Len(needle) + 1) :
        SubSeq(haystack, i, i + Len(needle) - 1) = needle

\* '/api/schedule'
ScheduleMarker == <<"/api", "/schedule">>

\* URLs of the responses the page receives.
Urls == { <<"https://www.aurigny.com", "/api", "/schedule">>,
          <<"https://www.aurigny.com", "/api", "/schedule", "?dir=arr">>,
          <<"https://www.aurigny.com", "/information", "/arrivals-departures">>,
          <<"https://www.aurigny.com", "/schedule", "/api">> }

\* Response bodies, the empty body included.
Bodies == { <<>>, <<"<dep/>">>, <<"<arr/>">> }

Directions == {"dep", "arr"}

\* What the target site does with the navigation (it goes idle, it fails, or
\* it keeps loading for ever), and whether the page shows a control matching
\* 'text=Arrivals'.
NavOutcomes == {"ok", "error", "never_idle"}
Controls == {"present", "missing"}

GotoTimeout == 60000

Finished == {"returned", "raised"}

VARIABLES
    caller,         \* "main" (the program entry point) or "test" (calls in sequence)
    mainpc,         \* position of main
    file,           \* content of flights.xml, None while the file does not exist
    cur,            \* number of the fetch_flights call in progress or last finished
    pc,             \* position of the main flow of that call
    direction,      \* its direction argument
    nav,            \* environment: its navigation: "none", an outcome still to
                    \* come, then "done" or "failed"
    control,        \* environment: the arrivals control of its page
    exc,            \* an exception is propagating out of its async with block
    clicks,         \* its page.click attempts
    clickFailed,    \* it printed "Could not click arrivals tab"
    waits,          \* the awaits of its main flow that have elapsed
    reads,          \* the reads of the capture slot by its main flow
    returnedAt,     \* Len(log[cur]) when it returned or raised
    session,        \* browser session of each call: "none", "open", "closed"
    captured_data,  \* the capture slot of each call (a local of that call)
    result,         \* value returned by each call
    tasks,          \* bag of the on_response tasks awaiting response.text()
    nresp,          \* matching responses delivered so far
    log,            \* bodies captured by each call, in order of completion
    readErrors      \* "Error reading response" lines printed so far

vars == <<caller, mainpc, file, cur, pc, direction, nav, control, exc, clicks,
          clickFailed, waits, reads, returnedAt, session, captured_data, result,
          tasks, nresp, log, readErrors>>

mainVars == <<caller, mainpc, file>>
flowVars == <<cur, pc, direction, nav, control, exc, clicks, clickFailed, waits,
              reads, returnedAt, session, result>>
obsVars == <<tasks, nresp, log, readErrors>>

Init ==
    /\ caller \in {"main", "test"}
    /\ mainpc = "start"
    /\ file = None
    /\ cur = 0
    /\ pc = "idle"
    /\ direction = "dep"
    /\ nav = "none"
    /\ control = "present"
    /\ exc = FALSE
    /\ clicks = 0
    /\ clickFailed = FALSE
    /\ waits = {}
    /\ reads = {}
    /\ returnedAt = 0
    /\ session = [c \in Calls |-> "none"]
    /\ captured_data = [c \in Calls |-> None]
    /\ result = [c \in Calls |-> NoResult]
    /\ tasks = EmptyBag
    /\ nresp = 0
    /\ log = [c \in Calls |-> <<>>]
    /\ readErrors = 0

\* ------------------------------------------------------- code fragments
\* captured_data is a local of the fetch_flights call; on_response binds it
\* with nonlocal, so a write goes to the slot of the call that made the task.
SlotWriteFirstOnly(cd, c, v) == IF cd[c] = None THEN [cd EXCEPT ![c] = v] ELSE cd
SlotWriteGlobal(cd, c, v) == [k \in DOMAIN cd |-> v]
SlotWrite(cd, c, v) == [cd EXCEPT ![c] = v]

\* if '/api/schedule' in response.url
Matches(url) == Contains(ScheduleMarker, url)

\* except Exception as e: print(...) -- the slot is not touched.
SlotAfterReadErrorCleared(slot) == None
SlotAfterReadError(slot) == slot

\* page.goto(..., wait_until='networkidle', timeout=60000) raises on a
\* navigation error, and on a page that never goes idle once the timeout
\* (0 disables it) has elapsed.
GotoFailsWithoutTimeout(n) == n = "error"
GotoFails(n) == n = "error" \/ (n = "never_idle" /\ GotoTimeout > 0)

\* The statement after page.goto: await asyncio.sleep(5).
AfterGotoNoSettle == "close"
AfterGoto == "sleep5"

\* if direction == 'arr' and not captured_data
NeedsRecoveryAnyDirection(d, slot) == ~Truthy(slot)
NeedsRecovery(d, slot) == d = "arr" /\ ~Truthy(slot)

\* The bare except around the click swallows every failure.
ClickFailureEscapes == TRUE
ClickFailurePropagates == FALSE

\* Leaving `async with async_playwright()` stops the driver and with it the
\* browser, whether or not an exception is propagating.
SessionAfterExitOnSuccessOnly(e) == IF e THEN "open" ELSE "closed"
SessionAfterExit(e) == "closed"

\* return captured_data
ReturnValueOrNone(slot) == IF Truthy(slot) THEN slot ELSE None
ReturnValue(slot) == slot

\* main: if data
MainHasDataNotNone(data) == data # None
MainHasData(data) == Truthy(data)

\* main: f.write(data) on a file opened in text mode
FileContent(data) == data

\* The on_response tasks of call c whose body read has not completed.
Pending(c) == {t \in BagToSet(tasks) : t.call = c}

\* A read of the slot by the main flow: where, the value read, the awaits
\* elapsed before it, and whether a body read was pending at that moment.
SlotRead(where, w) ==
    [at |-> where, val |-> captured_data[cur], waits |-> w,
     pending |-> Pending(cur) # {}]

\* ------------------------------------------------------- fetch_flights
\* Lines 8-51: clear the slot, launch the browser, open the page, register
\* on_response and start the navigation.  A call starts when none is running.
Start(d, n) ==
    /\ pc \in {"idle"} \cup Finished
    /\ cur < MaxCalls
    /\ cur' = cur + 1
    /\ pc' = "goto"
    /\ direction' = d
    /\ nav' = n
    /\ control' = "present"
    /\ exc' = FALSE
    /\ clicks' = 0
    /\ clickFailed' = FALSE
    /\ waits' = {}
    /\ reads' = {}
    /\ returnedAt' = 0
    /\ captured_data' = SlotWrite(captured_data, cur + 1, None)
    /\ session' = [session EXCEPT ![cur + 1] = "open"]
    /\ UNCHANGED result
    /\ UNCHANGED obsVars

\* A test caller: fetch_flights calls one after the other.
Call(d, n) ==
    /\ caller = "test"
    /\ Start(d, n)
    /\ UNCHANGED mainVars

\* page.goto returns: the network went idle.
GotoOk ==
    /\ pc = "goto"
    /\ nav = "ok"
    /\ nav' = "done"
    /\ pc' = AfterGoto
    /\ waits' = waits \cup {"goto"}
    /\ UNCHANGED <<cur, direction, control, exc, clicks, clickFailed, reads,
                   returnedAt, session, result, captured_data>>
    /\ UNCHANGED <<mainVars, obsVars>>

\* page.goto raises: the exception leaves the async with block.
GotoFail ==
    /\ pc = "goto"
    /\ GotoFails(nav)
    /\ nav' = "failed"
    /\ pc' = "aexit"
    /\ exc' = TRUE
    /\ waits' = waits \cup {"goto"}
    /\ UNCHANGED <<cur, direction, control, clicks, clickFailed, reads,
                   returnedAt, session, result, captured_data>>
    /\ UNCHANGED <<mainVars, obsVars>>

\* asyncio.sleep(5) returns and the policy branch is taken at once; k is the
\* arrivals control of the page the click is about to look for.
Settle(k) ==
    /\ pc = "sleep5"
    /\ LET w == waits \cup {"settle"}
           recover == NeedsRecovery(direction, captured_data[cur])
       IN /\ waits' = w
          /\ reads' = reads \cup {SlotRead("check", w)}
          /\ pc' = IF recover THEN "click" ELSE "close"
          /\ clicks' = IF recover THEN clicks + 1 ELSE clicks
          /\ control' = IF recover THEN k ELSE control
          /\ recover \/ k = "present"
    /\ UNCHANGED <<cur, direction, nav, exc, clickFailed, returnedAt, session,
                   result, captured_data>>
    /\ UNCHANGED <<mainVars, obsVars>>

\* page.click('text=Arrivals') returns.
ClickOk ==
    /\ pc = "click"
    /\ control = "present"
    /\ pc' = "sleep4"
    /\ UNCHANGED <<cur, direction, nav, control, exc, clicks, clickFailed, waits,
                   reads, returnedAt, session, result, captured_data>>
    /\ UNCHANGED <<mainVars, obsVars>>

\* page.click raises (no such control within the click's own timeout).
ClickFail ==
    /\ pc = "click"
    /\ control = "missing"
    /\ IF ClickFailurePropagates
       THEN pc' = "aexit" /\ exc' = TRUE
       ELSE pc' = "close" /\ exc' = exc
    /\ clickFailed' = TRUE
    /\ UNCHANGED <<cur, direction, nav, control, clicks, waits, reads, returnedAt,
                   session, result, captured_data>>
    /\ UNCHANGED <<mainVars, obsVars>>

\* asyncio.sleep(4) returns.
Recover ==
    /\ pc = "sleep4"
    /\ pc' = "close"
    /\ waits' = waits \cup {"recovery"}
    /\ UNCHANGED <<cur, direction, nav, control, exc, clicks, clickFailed, reads,
                   returnedAt, session, result, captured_data>>
    /\ UNCHANGED <<mainVars, obsVars>>

\* browser.close() returns.
Close ==
    /\ pc = "close"
    /\ pc' = "aexit"
    /\ session' = [session EXCEPT ![cur] = "closed"]
    /\ waits' = waits \cup {"close"}
    /\ UNCHANGED <<cur, direction, nav, control, exc, clicks, clickFailed, reads,
                   returnedAt, result, captured_data>>
    /\ UNCHANGED <<mainVars, obsVars>>

\* The async with block is left; then either the exception goes on to the
\* caller or `return captured_data` runs.
Exit ==
    /\ pc = "aexit"
    /\ session' = [session EXCEPT ![cur] =
                      IF @ = "closed" THEN @ ELSE SessionAfterExit(exc)]
    /\ LET w == waits \cup {"aexit"}
       IN /\ waits' = w
          /\ returnedAt' = Len(log[cur])
          /\ IF exc
             THEN /\ pc' = "raised"
                  /\ UNCHANGED <<result, reads>>
             ELSE /\ pc' = "returned"
                  /\ result' = [result EXCEPT ![cur] = ReturnValue(captured_data[cur])]
                  /\ reads' = reads \cup {SlotRead("return", w)}
    /\ UNCHANGED <<cur, direction, nav, control, exc, clicks, clickFailed,
                   captured_data>>
    /\ UNCHANGED <<mainVars, obsVars>>

\* ---------------------------------------------------------- on_response
\* The page receives a response while the browser is alive: on_response
\* starts and, on a matching URL, awaits response.text(); on any other URL it
\* returns at once and nothing has changed.
Respond(c, url, body) ==
    /\ session[c] = "open"
    /\ nresp < MaxResponses
    /\ IF Matches(url)
       THEN /\ tasks' = tasks (+) SetToBag({[call |-> c, body |-> body]})
            /\ nresp' = nresp + 1
       ELSE UNCHANGED <<tasks, nresp>>
    /\ UNCHANGED <<log, readErrors, captured_data>>
    /\ UNCHANGED <<mainVars, flowVars>>

\* response.text() returns: the body goes into the slot and is reported.
ReadOk(t) ==
    /\ BagIn(t, tasks)
    /\ tasks' = tasks (-) SetToBag({t})
    /\ captured_data' = SlotWrite(captured_data, t.call, Str(t.body))
    /\ log' = [log EXCEPT ![t.call] = Append(@, t.body)]
    /\ UNCHANGED <<nresp, readErrors>>
    /\ UNCHANGED <<mainVars, flowVars>>

\* response.text() raises: the error is reported.
ReadFail(t) ==
    /\ BagIn(t, tasks)
    /\ tasks' = tasks (-) SetToBag({t})
    /\ captured_data' = [captured_data EXCEPT ![t.call] = SlotAfterReadError(@)]
    /\ readErrors' = readErrors + 1
    /\ UNCHANGED <<nresp, log>>
    /\ UNCHANGED <<mainVars, flowVars>>

\* ----------------------------------------------------------------- main
\* data = await fetch_flights('dep')
MainCall(n) ==
    /\ caller = "main"
    /\ mainpc = "start"
    /\ mainpc' = "awaiting"
    /\ Start("dep", n)
    /\ UNCHANGED <<caller, file>>

\* if data: the payload is written to flights.xml.
MainSave ==
    /\ mainpc = "awaiting"
    /\ pc = "returned"
    /\ MainHasData(result[1])
    /\ file' = FileContent(result[1])
    /\ mainpc' = "saved"
    /\ UNCHANGED <<caller, captured_data>>
    /\ UNCHANGED <<flowVars, obsVars>>

\* else: print("No data captured")
MainNoData ==
    /\ mainpc = "awaiting"
    /\ pc = "returned"
    /\ ~MainHasData(result[1])
    /\ mainpc' = "nodata"
    /\ UNCHANGED <<caller, file, captured_data>>
    /\ UNCHANGED <<flowVars, obsVars>>

\* The exception of fetch_flights leaves main and asyncio.run.
MainRaise ==
    /\ mainpc = "awaiting"
    /\ pc = "raised"
    /\ mainpc' = "crashed"
    /\ UNCHANGED <<caller, file, captured_data>>
    /\ UNCHANGED <<flowVars, obsVars>>

\* -------------------------------------------------------- specification
MainFlow ==
    \/ GotoOk
    \/ GotoFail
    \/ \E k \in Controls : Settle(k)
    \/ ClickOk
    \/ ClickFail
    \/ Recover
    \/ Close
    \/ Exit

Next ==
    \/ \E d \in Directions, n \in NavOutcomes : Call(d, n)
    \/ GotoOk
    \/ GotoFail
    \/ \E k \in Controls : Settle(k)
    \/ ClickOk
    \/ ClickFail
    \/ Recover
    \/ Close
    \/ Exit
    \/ \E c \in Calls, url \in Urls, body \in Bodies : Respond(c, url, body)
    \/ \E t \in BagToSet(tasks) : ReadOk(t)
    \/ \E t \in BagToSet(tasks) : ReadFail(t)
    \/ \E n \in NavOutcomes : MainCall(n)
    \/ MainSave
    \/ MainNoData
    \/ MainRaise

Spec == Init /\ [][Next]_vars

\* Every await of the main flow completes or times out, so a started call
\* keeps taking steps.
FairSpec == Spec /\ WF_vars(MainFlow)

\* ================================================================ claims
Last(q) == q[Len(q)]
Range(q) == {q[i] : i \in DOMAIN q}

\* The body whose read completed last before the current call returned.
LastReadBeforeReturn ==
    IF returnedAt = 0 THEN None ELSE Str(log[cur][returnedAt])

\* C1 as stated: once the capture slot of a call holds a body, no later
\* matching response overwrites it (the first captured body is kept).
C1_FirstCaptureKept ==
    [][\A c \in Calls :
          captured_data[c] # None => captured_data'[c] = captured_data[c]]_vars

\* C1 as amended: every matching response whose body read succeeds overwrites
\* the capture slot, so the slot always holds the body of the read that
\* completed last (and is empty while no read has completed).
C1_SlotHoldsLastCompletedRead ==
    \A c \in Calls :
        captured_data[c] = IF log[c] = <<>> THEN None ELSE Str(Last(log[c]))

\* C1 witness: two matching responses with different bodies were read in one
\* call, and the call returned the second body read.
C1_TwoBodiesSecondReturned ==
    /\ pc = "returned"
    /\ returnedAt = 2
    /\ log[cur][1] # log[cur][2]
    /\ result[cur] = Str(log[cur][2])

\* C2 as stated: when page.goto fails no payload has been captured by the
\* time the call ends and none is returned, and the browser session is torn
\* down.
C2_NavFailureNothingCaptured ==
    (nav = "failed" /\ pc \in Finished) =>
        /\ returnedAt = 0
        /\ result[cur] = NoResult
        /\ session[cur] = "closed"

\* C2 as amended: when page.goto fails the call ends by raising and returns
\* no payload (a body may have been captured during the navigation, it is
\* never returned); on every exit path the browser session is released.
C2_NavFailureNothingReturnedSessionReleased ==
    /\ (nav = "failed" /\ pc \in Finished) =>
           (pc = "raised" /\ result[cur] = NoResult)
    /\ \A c \in 1..cur : (c < cur \/ pc \in Finished) => session[c] = "closed"

\* C2 witness: the navigation failed after a body had been captured; the call
\* raised and its session is closed.
C2_RaisedWithCapturedBody ==
    /\ nav = "failed"
    /\ pc = "raised"
    /\ returnedAt >= 1
    /\ captured_data[cur] # None
    /\ session[cur] = "closed"

C4_EveryReadBodyReturned ==
    pc = "returned" => \A i \in 1..returnedAt : result[cur] = Str(log[cur][i])

\* C4 as amended: the call returns exactly, untransformed, the body of the
\* read that completed last before the return (the empty body as an empty
\* string, not as None), and None when no read completed before the return.
C4_ReturnsLastBodyReadBeforeReturn ==
    pc = "returned" => result[cur] = LastReadBeforeReturn

\* C4 witness: the only matching response had an empty body and the call
\* returned the empty string.
C4_EmptyBodyReturned ==
    /\ pc = "returned"
    /\ returnedAt = 1
    /\ result[cur] = Str(<<>>)

\* C5: a fetch_flights call that has started ends, by returning or raising,
\* whatever the target site does.
C5_CallTerminates == (pc # "idle") ~> (pc \in Finished)

\* C5 witness: an arrivals call on a page without the arrivals control and
\* without any matching response has returned.
C5_ReturnedAfterFailedRecovery ==
    /\ pc = "returned"
    /\ clickFailed
    /\ log[cur] = <<>>
    /\ result[cur] = None

\* C6: calls in sequence have their own sessions and their own capture
\* slots: at most one session is open at a time, and the slot and the result
\* of a call only ever hold a body read from a response of that call's own
\* session, so a call starts with an empty slot whatever the calls before
\* captured or are still reading.
C6_CallsIndependent ==
    /\ \A c \in Calls : session[c] = "open" => (c = cur /\ pc \notin Finished)
    /\ \A c \in 1..cur :
          /\ captured_data[c] # None =>
                 captured_data[c].val \in Range(log[c])
          /\ result[c] \notin {NoResult, None} => result[c].val \in Range(log[c])

\* C6 witness: the first call returned None with a body read still pending,
\* that read completed later into the first call's slot, and the second call
\* returned None.
C6_LateReadOfFirstCallNotSeenBySecond ==
    /\ cur = 2
    /\ pc = "returned"
    /\ result[1] = None
    /\ captured_data[1] # None
    /\ result[2] = None

\* C7 as stated: main writes flights.xml if and only if fetch_flights
\* returned a payload, and writes it verbatim.
C7_FileIffPayloadReturned ==
    mainpc \in {"saved", "nodata"} =>
        /\ file # None <=> result[1] # None
        /\ file # None => file = result[1]

\* C7 as amended: main writes flights.xml if and only if fetch_flights
\* returned a non-empty payload, and writes it verbatim; for None and for an
\* empty payload, and when the call raises, no file is written.
C7_FileIffNonEmptyPayloadReturned ==
    /\ mainpc = "saved" => (Truthy(result[1]) /\ file = result[1])
    /\ mainpc = "nodata" => (pc = "returned" /\ ~Truthy(result[1]))
    /\ mainpc # "saved" => file = None

\* C7 witness: main saved a non-empty payload.
C7_PayloadSaved ==
    /\ mainpc = "saved"
    /\ file = result[1]
    /\ Len(file.val) > 0

\* C8: a failed body read is only reported: the step that reports it changes
\* neither the capture slot of any call nor anything the main flow depends
\* on (its position, a propagating exception, results, sessions).
C8_ReadFailureOnlyLogged ==
    [][readErrors' # readErrors =>
          /\ captured_data' = captured_data
          /\ pc' = pc
          /\ exc' = exc
          /\ result' = result
          /\ session' = session]_vars

\* C8 witness: in one call a body was captured, the read of another matching
\* response failed, and the call returned the captured body.
C8_ReturnedDespiteReadFailure ==
    /\ cur = 1
    /\ pc = "returned"
    /\ readErrors = 1
    /\ returnedAt = 1
    /\ result[cur] = Str(log[cur][1])

C10_ReadsAfterAllWaitsNoPendingRead ==
    \A r \in reads :
        /\ ~r.pending
        /\ (waits \cap {"goto", "settle", "recovery"}) \subseteq r.waits

\* C10 as amended: the main flow reads the slot at most twice, at the policy
\* check (after the navigation wait and the settle delay, before any
\* recovery delay) and at the return (after every waiting phase of the
\* call); a body read may be pending at either.
C10_ReadsAtCheckAndReturnOnly ==
    /\ Cardinality(reads) <= 2
    /\ \A r \in reads :
          /\ r.at \in {"check", "return"}
          /\ r.at = "check" => r.waits = {"goto", "settle"}
          /\ r.at = "return" =>
                 /\ {"goto", "settle", "close", "aexit"} \subseteq r.waits
                 /\ r.waits = waits
                 /\ (clicks = 1 /\ ~clickFailed) => "recovery" \in r.waits

\* C10 witness: the check read the slot while a body read was pending and
\* before the recovery delay, which then elapsed.
C10_CheckReadBeforeRecoveryDelay ==
    /\ pc = "returned"
    /\ "recovery" \in waits
    /\ \E r \in reads : r.at = "check" /\ r.pending /\ "recovery" \notin r.waits

====
